---- MODULE Spec2Model ----
(***************************************************************************)
(* Model of the SEO analyzer front end: the API client (src/src/api.ts)    *)
(* and the state of the Home view (src/src/app/page.tsx): its useState     *)
(* fields, the two asynchronous handlers startAnalysis and                 *)
(* analyzeSitemapUrl, the requests they leave in flight, and the click     *)
(* handlers of the rendered controls.                                      *)
(***************************************************************************)
EXTENDS Integers, Sequences, FiniteSets, TLC

VARIABLES url, isAnalyzing, error, data, activeTab, selectedPage,
          showPageContent, viewContentType, inflight, last,
          apiOp, apiReq, apiResp, apiOut, derived

viewVars == <<url, isAnalyzing, error, data, activeTab, selectedPage,
              showPageContent, viewContentType>>
apiVars == <<apiOp, apiReq, apiResp, apiOut>>
vars == <<url, isAnalyzing, error, data, activeTab, selectedPage,
          showPageContent, viewContentType, inflight, last,
          apiOp, apiReq, apiResp, apiOut, derived>>

\* ------------------------------------------------------------------------
\* Bounds
\* ------------------------------------------------------------------------

\* Largest number of requests the model lets be outstanding at once.
MaxInFlight == 2

\* ------------------------------------------------------------------------
\* Values
\* ------------------------------------------------------------------------

\* useState<SiteData | null>(null), useState<PageData | null>(null)
NoData == [null |-> TRUE]
NoPage == [null |-> TRUE]

\* useState(20) for maxPages
maxPages == 20

Tabs == {"dashboard", "content", "links", "keywords", "recommendations", "sitemap"}

\* What the user can type into the URL field.
Urls == {"", "https://example.com"}

PageA1 == [page_link |-> "https://example.com", title |-> "Home"]
PageB1 == [page_link |-> "https://example.com/a", title |-> "A"]

\* Report bodies the backend can deliver (SiteData); sitemap_urls is optional.
ReportA == [analyzed_url |-> "https://example.com", page_count |-> 1,
            pages |-> <<PageA1>>,
            sitemap_urls |-> <<"https://example.com/a", "">>]
ReportB == [analyzed_url |-> "https://example.com/a", page_count |-> 1,
            pages |-> <<PageB1>>]
Reports == {ReportA, ReportB}

\* Bodies of failure responses: JSON objects with or without an `error`
\* field, and bodies that are not JSON at all (an HTML page, nothing).
ErrorObjects == {[error |-> "Site unreachable"], [error |-> ""], [detail |-> "Not Found"]}
Texts == {"<html>", ""}

JsonBody(v) == [type |-> "json", value |-> v]
TextBody(t) == [type |-> "text", text |-> t]

OkStatuses == {200, 201}
ErrStatuses == {404, 500}

\* What a fetch can settle with: a rejection (network failure) or a response.
Responses ==
    {[type |-> "reject"]}
    \cup {[type |-> "response", status |-> s, body |-> JsonBody(r)] : s \in OkStatuses, r \in Reports}
    \cup {[type |-> "response", status |-> s, body |-> TextBody(t)] : s \in OkStatuses \cup ErrStatuses, t \in Texts}
    \cup {[type |-> "response", status |-> s, body |-> JsonBody(e)] : s \in ErrStatuses, e \in ErrorObjects}

\* The settlements the view's requests are answered with: one of each kind
\* (rejection, report, body that is not JSON, error object with and without
\* an error field).
ViewResponses ==
    {[type |-> "reject"]}
    \cup {[type |-> "response", status |-> 200, body |-> JsonBody(r)] : r \in Reports}
    \cup {[type |-> "response", status |-> 404, body |-> JsonBody(e)] : e \in ErrorObjects}
    \cup {[type |-> "response", status |-> 500, body |-> TextBody(t)] : t \in Texts}

\* ------------------------------------------------------------------------
\* API client (src/src/api.ts)
\* ------------------------------------------------------------------------

ApiOps == {"analyzeSite", "getSitemap", "analyzeSpecificUrl"}

Returned(v) == [threw |-> FALSE, value |-> v]
Threw(name, msg) == [threw |-> TRUE, err |-> [isError |-> TRUE, name |-> name, message |-> msg]]

\* Response.ok: status in the range 200-299.
ResponseOk(resp) == resp.status >= 200 /\ resp.status <= 299

\* Response.json(): resolves with the parsed body, or rejects with a
\* SyntaxError whose message comes from the JSON parser.
SyntaxMessage(text) ==
    IF text = "" THEN "Unexpected end of JSON input"
    ELSE "Unexpected token '<', \"<html>\" is not valid JSON"

ResponseJson(resp) ==
    IF resp.body.type = "json"
    THEN Returned(resp.body.value)
    ELSE Threw("SyntaxError", SyntaxMessage(resp.body.text))

\* error.error || fallback
ErrorOr(obj, fallback) ==
    IF "error" \in DOMAIN obj /\ obj.error # "" THEN obj.error ELSE fallback

\* fetch(...) rejects on a network failure.
FetchRejection == Threw("TypeError", "Failed to fetch")

\* analyzeSite declared with maxPages = 10 as its default.
analyzeSiteRequest_DefaultTen(u, args) ==
    LET mp == IF Len(args) >= 1 THEN args[1] ELSE 10
        sp == IF Len(args) >= 2 THEN args[2] ELSE TRUE
    IN [method |-> "POST", path |-> "/api/analyze",
        body |-> [url |-> u, max_pages |-> mp, single_page |-> sp, remove_duplicates |-> TRUE]]

\* analyzeSite(url, maxPages = 20, singlePage = true): args holds the optional
\* arguments the caller passed, in order.
analyzeSiteRequest(u, args) ==
    LET mp == IF Len(args) >= 1 THEN args[1] ELSE 20
        sp == IF Len(args) >= 2 THEN args[2] ELSE TRUE
    IN [method |-> "POST", path |-> "/api/analyze",
        body |-> [url |-> u, max_pages |-> mp, single_page |-> sp, remove_duplicates |-> TRUE]]

getSitemapRequest ==
    [method |-> "GET", path |-> "/api/sitemap"]

analyzeSpecificUrlRequest(u) ==
    [method |-> "POST", path |-> "/api/analyze-url",
     body |-> [url |-> u, remove_duplicates |-> TRUE]]

\* The operations from the point where fetch has settled with resp.
analyzeSite(resp) ==
    IF resp.type = "reject" THEN FetchRejection
    ELSE IF ~ResponseOk(resp)
         THEN LET parsed == ResponseJson(resp)
              IN IF parsed.threw THEN parsed
                 ELSE Threw("Error", ErrorOr(parsed.value, "Failed to analyze website"))
         ELSE ResponseJson(resp)

\* getSitemap with a branch of its own for one status code.
getSitemap_Status404(resp) ==
    IF resp.type = "reject" THEN FetchRejection
    ELSE IF ~ResponseOk(resp)
         THEN IF resp.status = 404
              THEN Threw("Error", "Not found")
              ELSE LET parsed == ResponseJson(resp)
                   IN IF parsed.threw THEN parsed
                      ELSE Threw("Error", ErrorOr(parsed.value, "Failed to get sitemap"))
         ELSE ResponseJson(resp)

getSitemap(resp) ==
    IF resp.type = "reject" THEN FetchRejection
    ELSE IF ~ResponseOk(resp)
         THEN LET parsed == ResponseJson(resp)
              IN IF parsed.threw THEN parsed
                 ELSE Threw("Error", ErrorOr(parsed.value, "Failed to get sitemap"))
         ELSE ResponseJson(resp)

analyzeSpecificUrl(resp) ==
    IF resp.type = "reject" THEN FetchRejection
    ELSE IF ~ResponseOk(resp)
         THEN LET parsed == ResponseJson(resp)
              IN IF parsed.threw THEN parsed
                 ELSE Threw("Error", ErrorOr(parsed.value, "Failed to analyze URL"))
         ELSE ResponseJson(resp)

\* ------------------------------------------------------------------------
\* JavaScript numbers, as far as the derived metrics use them: non-negative
\* rationals n/d kept exact, NaN and Infinity.
\* ------------------------------------------------------------------------

RECURSIVE Gcd(_, _)
Gcd(a, b) == IF b = 0 THEN a ELSE Gcd(b, a % b)

Fin(n, d) == [k |-> "fin", n |-> n \div Gcd(n, d), d |-> d \div Gcd(n, d)]
NaN == [k |-> "nan"]
Infinity == [k |-> "inf"]
Num(n) == Fin(n, 1)

\* A field the JSON does not have (undefined).
Absent == [absent |-> TRUE]

IsZero(a) == a.k = "fin" /\ a.n = 0

\* a / b
JsDiv(a, b) ==
    IF a.k = "nan" \/ b.k = "nan" THEN NaN
    ELSE IF b.k = "inf" THEN (IF a.k = "inf" THEN NaN ELSE Num(0))
    ELSE IF a.k = "inf" THEN Infinity
    ELSE IF b.n = 0 THEN (IF a.n = 0 THEN NaN ELSE Infinity)
    ELSE Fin(a.n * b.d, a.d * b.n)

\* a * b
JsMul(a, b) ==
    IF a.k = "nan" \/ b.k = "nan" THEN NaN
    ELSE IF a.k = "inf" \/ b.k = "inf"
         THEN (IF IsZero(a) \/ IsZero(b) THEN NaN ELSE Infinity)
    ELSE Fin(a.n * b.n, a.d * b.d)

\* a + b
JsAdd(a, b) ==
    IF a.k = "nan" \/ b.k = "nan" THEN NaN
    ELSE IF a.k = "inf" \/ b.k = "inf" THEN Infinity
    ELSE Fin(a.n * b.d + b.n * a.d, a.d * b.d)

\* a < b, a > b, a === b: false whenever an operand is NaN.
JsLt(a, b) ==
    IF a.k = "nan" \/ b.k = "nan" THEN FALSE
    ELSE IF a.k = "inf" THEN FALSE
    ELSE IF b.k = "inf" THEN TRUE
    ELSE a.n * b.d < b.n * a.d

JsGt(a, b) == JsLt(b, a)

JsEq(a, b) ==
    IF a.k = "nan" \/ b.k = "nan" THEN FALSE
    ELSE IF a.k = "inf" \/ b.k = "inf" THEN a.k = b.k
    ELSE a.n * b.d = b.n * a.d

\* Math.min(a, b): NaN when an operand is NaN.
MathMin(a, b) ==
    IF a.k = "nan" \/ b.k = "nan" THEN NaN
    ELSE IF JsLt(b, a) THEN b ELSE a

\* Math.round(a): the nearest integer, halves rounded up.
MathRound(a) ==
    IF a.k # "fin" THEN a
    ELSE Num((2 * a.n + a.d) \div (2 * a.d))

\* x || fallback for a number that may be missing: undefined, 0 and NaN are falsy.
OrNum(x, fallback) ==
    IF x = Absent \/ x.k = "nan" \/ IsZero(x) THEN fallback ELSE x

\* obj?.field
Get(obj, field) ==
    IF field \in DOMAIN obj THEN obj[field] ELSE Absent

\* ------------------------------------------------------------------------
\* Home view (src/src/app/page.tsx)
\* ------------------------------------------------------------------------

\* What the render shows, from the branches on data, isAnalyzing and error.
Loaded == data # NoData
Idle == data = NoData /\ ~isAnalyzing
Analyzing == data = NoData /\ isAnalyzing
ErrorShown == data = NoData /\ error # ""
PanelShown == data # NoData /\ activeTab = "content" /\ showPageContent /\ selectedPage # NoPage

StartEnabled == data = NoData /\ ~(isAnalyzing \/ url = "")

SitemapEntries ==
    IF data # NoData /\ activeTab = "sitemap" /\ "sitemap_urls" \in DOMAIN data
    THEN {data.sitemap_urls[i] : i \in 1..Len(data.sitemap_urls)}
    ELSE {}

PagesOf(d) ==
    IF d # NoData /\ "pages" \in DOMAIN d
    THEN {d.pages[i] : i \in 1..Len(d.pages)}
    ELSE {}

RemoveAt(s, i) == [j \in 1..(Len(s) - 1) |-> IF j < i THEN s[j] ELSE s[j + 1]]

\* catch (err) taking an Error's message as it is, without `|| text`.
CatchMessage_NoDefault(err, text) ==
    IF err.isError THEN err.message ELSE text

\* catch (err): err.message || text when err is an Error, text otherwise.
CatchMessage(err, text) ==
    IF err.isError
    THEN IF err.message # "" THEN err.message ELSE text
    ELSE text

Init ==
    /\ url = ""
    /\ isAnalyzing = FALSE
    /\ error = ""
    /\ data = NoData
    /\ activeTab = "dashboard"
    /\ selectedPage = NoPage
    /\ showPageContent = FALSE
    /\ viewContentType = "structured"
    /\ inflight = <<>>
    /\ last = [op |-> "init"]
    /\ apiOp = "none"
    /\ apiReq = [method |-> "none"]
    /\ apiResp = [type |-> "none"]
    /\ apiOut = [threw |-> FALSE, value |-> NoData]
    /\ derived = [tab |-> "none"]

\* onChange of the URL input (rendered while there is no report).
SetUrl(u) ==
    /\ data = NoData
    /\ url' = u
    /\ last' = [op |-> "setUrl"]
    /\ UNCHANGED <<isAnalyzing, error, data, activeTab, selectedPage,
                   showPageContent, viewContentType, inflight>>
    /\ UNCHANGED <<apiVars, derived>>

\* startAnalysis up to its await: the click on 'Analyze Single Page'.
StartAnalysis ==
    /\ StartEnabled
    /\ Len(inflight) < MaxInFlight
    /\ url # ""
    /\ error' = ""
    /\ isAnalyzing' = TRUE
    /\ inflight' = Append(inflight,
            [caller |-> "startAnalysis",
             request |-> analyzeSiteRequest(url, <<maxPages, TRUE>>),
             dataAtStart |-> data])
    /\ last' = [op |-> "startAnalysis"]
    /\ UNCHANGED <<url, data, activeTab, selectedPage, showPageContent, viewContentType>>
    /\ UNCHANGED <<apiVars, derived>>

\* analyzeSitemapUrl without its `if (!urlToAnalyze) return`.
AnalyzeSitemapUrl_NoEarlyReturn(urlToAnalyze) ==
    /\ urlToAnalyze \in SitemapEntries
    /\ Len(inflight) < MaxInFlight
    /\ error' = ""
    /\ isAnalyzing' = TRUE
    /\ inflight' = Append(inflight,
            [caller |-> "analyzeSitemapUrl",
             request |-> analyzeSpecificUrlRequest(urlToAnalyze),
             dataAtStart |-> data])
    /\ last' = [op |-> "analyzeSitemapUrl", issued |-> TRUE, entry |-> urlToAnalyze]
    /\ UNCHANGED <<url, data, activeTab, selectedPage, showPageContent, viewContentType>>
    /\ UNCHANGED <<apiVars, derived>>

\* analyzeSitemapUrl up to its await: the click on a sitemap entry's
\* 'Analyze' button, which carries no disabled attribute.
AnalyzeSitemapUrl(urlToAnalyze) ==
    /\ urlToAnalyze \in SitemapEntries
    /\ IF urlToAnalyze = ""
       THEN /\ last' = [op |-> "analyzeSitemapUrl", issued |-> FALSE, entry |-> urlToAnalyze]
            /\ UNCHANGED <<error, isAnalyzing, inflight>>
       ELSE /\ Len(inflight) < MaxInFlight
            /\ error' = ""
            /\ isAnalyzing' = TRUE
            /\ inflight' = Append(inflight,
                    [caller |-> "analyzeSitemapUrl",
                     request |-> analyzeSpecificUrlRequest(urlToAnalyze),
                     dataAtStart |-> data])
            /\ last' = [op |-> "analyzeSitemapUrl", issued |-> TRUE, entry |-> urlToAnalyze]
    /\ UNCHANGED <<url, data, activeTab, selectedPage, showPageContent, viewContentType>>
    /\ UNCHANGED <<apiVars, derived>>

\* startAnalysis from its await on: try / catch / finally.
StartAnalysisSettle(i, resp) ==
    /\ i \in 1..Len(inflight)
    /\ inflight[i].caller = "startAnalysis"
    /\ LET out == analyzeSite(resp)
       IN /\ IF out.threw
             THEN /\ error' = CatchMessage(out.err, "An error occurred during analysis")
                  /\ data' = data
             ELSE /\ data' = out.value
                  /\ error' = error
          /\ last' = [op |-> "settle", pending |-> inflight[i], resp |-> resp, out |-> out,
                       overtook |-> (1 < Len(inflight) /\ i = Len(inflight))]
    /\ isAnalyzing' = FALSE
    /\ inflight' = RemoveAt(inflight, i)
    /\ UNCHANGED <<url, activeTab, selectedPage, showPageContent, viewContentType>>
    /\ UNCHANGED <<apiVars, derived>>

\* analyzeSitemapUrl issuing the request again when it has failed.
AnalyzeSitemapUrlSettle_Retry(i, resp) ==
    /\ i \in 1..Len(inflight)
    /\ inflight[i].caller = "analyzeSitemapUrl"
    /\ LET out == analyzeSpecificUrl(resp)
       IN /\ IF out.threw
             THEN /\ error' = CatchMessage(out.err, "An error occurred analyzing the URL")
                  /\ data' = data
                  /\ inflight' = Append(RemoveAt(inflight, i), inflight[i])
             ELSE /\ data' = out.value
                  /\ error' = error
                  /\ inflight' = RemoveAt(inflight, i)
          /\ last' = [op |-> "settle", pending |-> inflight[i], resp |-> resp, out |-> out,
                       overtook |-> (1 < Len(inflight) /\ i = Len(inflight))]
    /\ isAnalyzing' = FALSE
    /\ UNCHANGED <<url, activeTab, selectedPage, showPageContent, viewContentType>>
    /\ UNCHANGED <<apiVars, derived>>

\* analyzeSitemapUrl merging the result into the stored report:
\* setData({...data, ...result}).
MergeInto(old, new) ==
    IF old = NoData THEN new
    ELSE [k \in DOMAIN old \cup DOMAIN new |-> IF k \in DOMAIN new THEN new[k] ELSE old[k]]

AnalyzeSitemapUrlSettle_Merge(i, resp) ==
    /\ i \in 1..Len(inflight)
    /\ inflight[i].caller = "analyzeSitemapUrl"
    /\ LET out == analyzeSpecificUrl(resp)
       IN /\ IF out.threw
             THEN /\ error' = CatchMessage(out.err, "An error occurred analyzing the URL")
                  /\ data' = data
             ELSE /\ data' = MergeInto(data, out.value)
                  /\ error' = error
          /\ last' = [op |-> "settle", pending |-> inflight[i], resp |-> resp, out |-> out,
                       overtook |-> (1 < Len(inflight) /\ i = Len(inflight))]
    /\ isAnalyzing' = FALSE
    /\ inflight' = RemoveAt(inflight, i)
    /\ UNCHANGED <<url, activeTab, selectedPage, showPageContent, viewContentType>>
    /\ UNCHANGED <<apiVars, derived>>

\* analyzeSitemapUrl dropping the stored report in its catch block.
AnalyzeSitemapUrlSettle_ClearsOnFailure(i, resp) ==
    /\ i \in 1..Len(inflight)
    /\ inflight[i].caller = "analyzeSitemapUrl"
    /\ LET out == analyzeSpecificUrl(resp)
       IN /\ IF out.threw
             THEN /\ error' = CatchMessage(out.err, "An error occurred analyzing the URL")
                  /\ data' = NoData
             ELSE /\ data' = out.value
                  /\ error' = error
          /\ last' = [op |-> "settle", pending |-> inflight[i], resp |-> resp, out |-> out,
                       overtook |-> (1 < Len(inflight) /\ i = Len(inflight))]
    /\ isAnalyzing' = FALSE
    /\ inflight' = RemoveAt(inflight, i)
    /\ UNCHANGED <<url, activeTab, selectedPage, showPageContent, viewContentType>>
    /\ UNCHANGED <<apiVars, derived>>

\* analyzeSitemapUrl clearing the flag at the end of the try block instead
\* of in a finally block.
AnalyzeSitemapUrlSettle_NoFinally(i, resp) ==
    /\ i \in 1..Len(inflight)
    /\ inflight[i].caller = "analyzeSitemapUrl"
    /\ LET out == analyzeSpecificUrl(resp)
       IN /\ IF out.threw
             THEN /\ error' = CatchMessage(out.err, "An error occurred analyzing the URL")
                  /\ data' = data
                  /\ isAnalyzing' = isAnalyzing
             ELSE /\ data' = out.value
                  /\ error' = error
                  /\ isAnalyzing' = FALSE
          /\ last' = [op |-> "settle", pending |-> inflight[i], resp |-> resp, out |-> out,
                       overtook |-> (1 < Len(inflight) /\ i = Len(inflight))]
    /\ inflight' = RemoveAt(inflight, i)
    /\ UNCHANGED <<url, activeTab, selectedPage, showPageContent, viewContentType>>
    /\ UNCHANGED <<apiVars, derived>>

\* analyzeSitemapUrl from its await on: try / catch / finally.
AnalyzeSitemapUrlSettle(i, resp) ==
    /\ i \in 1..Len(inflight)
    /\ inflight[i].caller = "analyzeSitemapUrl"
    /\ LET out == analyzeSpecificUrl(resp)
       IN /\ IF out.threw
             THEN /\ error' = CatchMessage(out.err, "An error occurred analyzing the URL")
                  /\ data' = data
             ELSE /\ data' = out.value
                  /\ error' = error
          /\ last' = [op |-> "settle", pending |-> inflight[i], resp |-> resp, out |-> out,
                       overtook |-> (1 < Len(inflight) /\ i = Len(inflight))]
    /\ isAnalyzing' = FALSE
    /\ inflight' = RemoveAt(inflight, i)
    /\ UNCHANGED <<url, activeTab, selectedPage, showPageContent, viewContentType>>
    /\ UNCHANGED <<apiVars, derived>>

\* 'New Analysis' refusing to reset while a request is outstanding.
NewAnalysis_OnlyWhenSettled ==
    /\ data # NoData
    /\ data' = IF isAnalyzing THEN data ELSE NoData
    /\ last' = [op |-> "newAnalysis"]
    /\ UNCHANGED <<url, isAnalyzing, error, activeTab, selectedPage,
                   showPageContent, viewContentType, inflight>>
    /\ UNCHANGED <<apiVars, derived>>

\* onClick of 'New Analysis' (rendered while there is a report).
NewAnalysis ==
    /\ data # NoData
    /\ data' = NoData
    /\ last' = [op |-> "newAnalysis"]
    /\ UNCHANGED <<url, isAnalyzing, error, activeTab, selectedPage,
                   showPageContent, viewContentType, inflight>>
    /\ UNCHANGED <<apiVars, derived>>

\* onClick of a tab button.
SetActiveTab(t) ==
    /\ data # NoData
    /\ activeTab' = t
    /\ last' = [op |-> "setActiveTab"]
    /\ UNCHANGED <<url, isAnalyzing, error, data, selectedPage,
                   showPageContent, viewContentType, inflight>>
    /\ UNCHANGED <<apiVars, derived>>

\* 'View Content' without setViewContentType('structured').
ViewContent_KeepsViewType(page) ==
    /\ data # NoData
    /\ activeTab = "content"
    /\ page \in PagesOf(data)
    /\ selectedPage' = page
    /\ showPageContent' = TRUE
    /\ last' = [op |-> "viewContent"]
    /\ UNCHANGED <<url, isAnalyzing, error, data, activeTab, inflight, viewContentType>>
    /\ UNCHANGED <<apiVars, derived>>

\* onClick of a page row's 'View Content' button.
ViewContent(page) ==
    /\ data # NoData
    /\ activeTab = "content"
    /\ page \in PagesOf(data)
    /\ selectedPage' = page
    /\ showPageContent' = TRUE
    /\ viewContentType' = "structured"
    /\ last' = [op |-> "viewContent"]
    /\ UNCHANGED <<url, isAnalyzing, error, data, activeTab, inflight>>
    /\ UNCHANGED <<apiVars, derived>>

\* onClick of the panel's 'Structured' / 'HTML' buttons.
SetViewContentType(t) ==
    /\ PanelShown
    /\ viewContentType' = t
    /\ last' = [op |-> "setViewContentType"]
    /\ UNCHANGED <<url, isAnalyzing, error, data, activeTab, selectedPage,
                   showPageContent, inflight>>
    /\ UNCHANGED <<apiVars, derived>>

\* onClick of the panel's close button.
ClosePageContent ==
    /\ PanelShown
    /\ showPageContent' = FALSE
    /\ last' = [op |-> "closePageContent"]
    /\ UNCHANGED <<url, isAnalyzing, error, data, activeTab, selectedPage,
                   viewContentType, inflight>>
    /\ UNCHANGED <<apiVars, derived>>

Next ==
    \/ \E u \in Urls : SetUrl(u)
    \/ StartAnalysis
    \/ \E u \in SitemapEntries : AnalyzeSitemapUrl(u)
    \/ \E i \in 1..Len(inflight), resp \in ViewResponses : StartAnalysisSettle(i, resp)
    \/ \E i \in 1..Len(inflight), resp \in ViewResponses : AnalyzeSitemapUrlSettle(i, resp)
    \/ NewAnalysis
    \/ \E t \in Tabs : SetActiveTab(t)
    \/ \E page \in PagesOf(data) : ViewContent(page)
    \/ \E t \in {"structured", "raw"} : SetViewContentType(t)
    \/ ClosePageContent

Spec == Init /\ [][Next]_vars

\* Every issued fetch eventually resolves or rejects.
Settles ==
    \/ \E i \in 1..Len(inflight), resp \in ViewResponses : StartAnalysisSettle(i, resp)
    \/ \E i \in 1..Len(inflight), resp \in ViewResponses : AnalyzeSitemapUrlSettle(i, resp)

FairSpec == Init /\ [][Next]_vars /\ WF_vars(Settles)

\* ------------------------------------------------------------------------
\* Derived metrics of the Home view (src/src/app/page.tsx)
\* ------------------------------------------------------------------------

Has(obj, field) == field \in DOMAIN obj

\* getOverviewStats() reading the analyzing flag besides the report.
getOverviewStats_WhileAnalyzing(d) ==
    LET numeric == Get(Get(d, "stats"), "numeric")
    IN IF numeric = Absent \/ isAnalyzing
       THEN [total_pages |-> Num(0), avg_word_count |-> Num(0),
             avg_image_count |-> Num(0), total_links |-> Num(0)]
       ELSE [total_pages |-> OrNum(Get(d, "page_count"), Num(0)),
             avg_word_count |-> OrNum(Get(Get(numeric, "word_count"), "mean"), Num(0)),
             avg_image_count |-> OrNum(Get(Get(numeric, "image_count"), "mean"), Num(0)),
             total_links |-> JsAdd(OrNum(Get(Get(numeric, "internal_links"), "sum"), Num(0)),
                                   OrNum(Get(Get(numeric, "external_links"), "sum"), Num(0)))]

getOverviewStats_InternalOnly(d) ==
    LET numeric == Get(Get(d, "stats"), "numeric")
    IN IF numeric = Absent
       THEN [total_pages |-> Num(0), avg_word_count |-> Num(0),
             avg_image_count |-> Num(0), total_links |-> Num(0)]
       ELSE [total_pages |-> OrNum(Get(d, "page_count"), Num(0)),
             avg_word_count |-> OrNum(Get(Get(numeric, "word_count"), "mean"), Num(0)),
             avg_image_count |-> OrNum(Get(Get(numeric, "image_count"), "mean"), Num(0)),
             total_links |-> OrNum(Get(Get(numeric, "internal_links"), "sum"), Num(0))]

\* getOverviewStats(), d being the stored report it closes over.
getOverviewStats(d) ==
    LET numeric == Get(Get(d, "stats"), "numeric")
    IN IF numeric = Absent
       THEN [total_pages |-> Num(0), avg_word_count |-> Num(0),
             avg_image_count |-> Num(0), total_links |-> Num(0)]
       ELSE [total_pages |-> OrNum(Get(d, "page_count"), Num(0)),
             avg_word_count |-> OrNum(Get(Get(numeric, "word_count"), "mean"), Num(0)),
             avg_image_count |-> OrNum(Get(Get(numeric, "image_count"), "mean"), Num(0)),
             total_links |-> JsAdd(OrNum(Get(Get(numeric, "internal_links"), "sum"), Num(0)),
                                   OrNum(Get(Get(numeric, "external_links"), "sum"), Num(0)))]

\* pages.reduce((sum, page) => sum + page.h1_count, 0)
RECURSIVE SumH1(_)
SumH1(pages) ==
    IF pages = <<>> THEN 0
    ELSE pages[1].h1_count + SumH1(Tail(pages))

\* (data.pages?.reduce(...) || 0) / (data.pages?.length || 1)
H1PerPage(d) ==
    JsDiv(OrNum(IF Has(d, "pages") THEN Num(SumH1(d.pages)) ELSE Absent, Num(0)),
          OrNum(IF Has(d, "pages") THEN Num(Len(d.pages)) ELSE Absent, Num(1)))

\* Content tab, 'Overall Score' and 'Overall Content Quality'.
ContentOverallScore(d) ==
    MathMin(Num(100),
        JsAdd(JsAdd(JsMul(JsDiv(getOverviewStats(d).avg_word_count, Num(800)), Num(40)),
                    JsMul(H1PerPage(d), Num(30))),
              JsMul(JsDiv(getOverviewStats(d).avg_image_count, Num(4)), Num(30))))

\* Content tab, the text under 'Overall Content Quality'.
ContentOverallText(d) ==
    IF JsLt(ContentOverallScore(d), Num(50))
    THEN "Content needs significant improvement. Focus on all aspects of content quality."
    ELSE IF JsLt(ContentOverallScore(d), Num(70))
         THEN "Content quality is moderate. Some areas need improvement."
         ELSE "Good overall content quality. Continue refining for even better results."

\* Math.min(100, (total_links / (total_pages * 10)) * 100): the radar's
\* 'Links' score and the links term of the SEO score.
LinksScore(d) ==
    MathMin(Num(100),
        JsMul(JsDiv(getOverviewStats(d).total_links,
                    JsMul(getOverviewStats(d).total_pages, Num(10))),
              Num(100)))

\* data.stats.common_keywords?.[0]?.relevance
TopRelevance(d) ==
    LET stats == Get(d, "stats")
    IN IF Has(stats, "common_keywords") /\ Len(stats.common_keywords) > 0
       THEN Get(stats.common_keywords[1], "relevance")
       ELSE Absent

\* The radar's 'Keywords' score.
RadarKeywordsScore(d) ==
    LET stats == Get(d, "stats")
    IN IF Has(stats, "common_keywords") /\ Len(stats.common_keywords) > 0
       THEN MathMin(Num(100), JsMul(OrNum(Get(stats.common_keywords[1], "relevance"), Fin(1, 2)), Num(100)))
       ELSE Num(50)

\* Recommendations tab: the three terms of the SEO score.
SeoContentScore(d) ==
    MathMin(Num(100), JsMul(JsDiv(getOverviewStats(d).avg_word_count, Num(800)), Num(100)))

SeoKeywordScore(d) ==
    MathMin(Num(100), JsMul(OrNum(TopRelevance(d), Fin(1, 2)), Num(100)))

\* The sum inside Math.round(...) of 'Overall SEO Score', and what is shown.
SeoOverallSum(d) ==
    JsAdd(JsAdd(JsMul(SeoContentScore(d), Fin(4, 10)),
                JsMul(SeoKeywordScore(d), Fin(3, 10))),
          JsMul(LinksScore(d), Fin(3, 10)))

SeoOverallScore(d) == MathRound(SeoOverallSum(d))

\* The score cards under it, and the text of a card.
SeoCardScores(d) ==
    [content |-> MathRound(SeoContentScore(d)),
     keywords |-> MathRound(SeoKeywordScore(d)),
     links |-> MathRound(LinksScore(d))]

SeoCardText_Fifty(score) ==
    IF JsLt(score, Num(50)) THEN "Needs significant improvement"
    ELSE IF JsLt(score, Num(70)) THEN "Room for improvement"
         ELSE "Good performance"

SeoCardText(score) ==
    IF JsLt(score, Num(40)) THEN "Needs significant improvement"
    ELSE IF JsLt(score, Num(70)) THEN "Room for improvement"
         ELSE "Good performance"

\* Links tab: 'Internal Link Structure' and 'External Link Quality'. The
\* render reads data.stats.numeric without a guard.
InternalLinkScore(d) ==
    MathMin(Num(100),
        JsMul(JsDiv(OrNum(Get(Get(d.stats.numeric, "internal_links"), "sum"), Num(0)),
                    JsMul(OrNum(IF Has(d, "pages") THEN Num(Len(d.pages)) ELSE Absent, Num(1)), Num(5))),
              Num(100)))

InternalLinkText(d) ==
    IF JsLt(InternalLinkScore(d), Num(30))
    THEN "Poor internal linking. Add more links between your pages."
    ELSE IF JsLt(InternalLinkScore(d), Num(60))
         THEN "Moderate internal linking structure."
         ELSE "Good internal linking between pages."

ExternalLinkScore(d) ==
    MathMin(Num(100),
        JsMul(JsDiv(OrNum(Get(Get(d.stats.numeric, "external_links"), "sum"), Num(0)),
                    JsMul(OrNum(IF Has(d, "pages") THEN Num(Len(d.pages)) ELSE Absent, Num(1)), Num(3))),
              Num(100)))

ExternalLinkText(d) ==
    IF JsLt(ExternalLinkScore(d), Num(30))
    THEN "Few external links. Consider linking to authority sites."
    ELSE IF JsLt(ExternalLinkScore(d), Num(60))
         THEN "Moderate use of external links."
         ELSE "Good balance of external links."

\* data.stats.pageMetrics?.find(p => p.pageLink === link)
RECURSIVE FindMetric(_, _)
FindMetric(metrics, link) ==
    IF metrics = <<>> THEN Absent
    ELSE IF metrics[1].pageLink = link THEN metrics[1]
         ELSE FindMetric(Tail(metrics), link)

\* data.stats.pageMetrics?.find(...)?.keywordDensity || 0
PageDensity(d, link) ==
    OrNum(IF Has(d.stats, "pageMetrics")
          THEN Get(FindMetric(d.stats.pageMetrics, link), "keywordDensity")
          ELSE Absent,
          Num(0))

\* Keywords tab, keyword density grid: the bar colour and the text.
DensityGridColor(density) ==
    IF JsLt(density, Num(1)) THEN "bg-red-500"
    ELSE IF JsLt(density, Num(2)) THEN "bg-yellow-500"
         ELSE IF JsGt(density, Fin(35, 10)) THEN "bg-yellow-500"
              ELSE "bg-emerald-500"

DensityGridText_StuffingFrom(density) ==
    IF JsLt(density, Num(1)) THEN "Too low. Increase keyword usage."
    ELSE IF JsLt(density, Num(2)) THEN "Below optimal. Consider increasing slightly."
         ELSE IF ~JsLt(density, Fin(35, 10)) THEN "Risk of keyword stuffing. Reduce usage."
              ELSE "Optimal keyword density."

DensityGridText(density) ==
    IF JsLt(density, Num(1)) THEN "Too low. Increase keyword usage."
    ELSE IF JsLt(density, Num(2)) THEN "Below optimal. Consider increasing slightly."
         ELSE IF JsGt(density, Fin(35, 10)) THEN "Risk of keyword stuffing. Reduce usage."
              ELSE "Optimal keyword density."

\* The table's bar colour with `density <= 2` as its second test.
DensityTableColor_TwoInclusive(density) ==
    IF JsLt(density, Num(1)) THEN "bg-red-500"
    ELSE IF ~JsGt(density, Num(2)) THEN "bg-amber-500"
         ELSE IF JsGt(density, Fin(35, 10)) THEN "bg-amber-500"
              ELSE "bg-emerald-500"

\* Keywords tab, keywords-by-page table: the bar colour.
DensityTableColor(density) ==
    IF JsLt(density, Num(1)) THEN "bg-red-500"
    ELSE IF JsLt(density, Num(2)) THEN "bg-amber-500"
         ELSE IF JsGt(density, Fin(35, 10)) THEN "bg-amber-500"
              ELSE "bg-emerald-500"

\* data.stats.keywords_by_page?.slice(0, 6)
GridPages(d) ==
    IF Has(d.stats, "keywords_by_page")
    THEN SubSeq(d.stats.keywords_by_page, 1,
                IF Len(d.stats.keywords_by_page) < 6 THEN Len(d.stats.keywords_by_page) ELSE 6)
    ELSE <<>>

\* ------------------------------------------------------------------------
\* Reports the derived metrics are computed for
\* ------------------------------------------------------------------------

EmptyObject == [x \in {} |-> x]
OptField(field, v) == IF v = Absent THEN EmptyObject ELSE field :> v
OptList(field, o) == IF o = {} THEN EmptyObject ELSE field :> (CHOOSE v \in o : TRUE)

PageCountValues == {Absent, Num(0), Num(1)}
WordMeanValues == {Absent, Num(400), Num(450), Num(800), Num(1600)}
ImageMeanValues == {Absent, Num(1), Num(8)}
InternalSumValues == {Absent, Num(2), Num(3), Num(5)}
ExternalSumValues == {Absent, Num(2)}

WrapField(inner, v) == IF v = Absent THEN Absent ELSE inner :> v

NumericValues ==
    {Absent} \cup
    { OptField("word_count", WrapField("mean", wc))
      @@ OptField("image_count", WrapField("mean", ic))
      @@ OptField("internal_links", WrapField("sum", il))
      @@ OptField("external_links", WrapField("sum", el)) :
        wc \in WordMeanValues, ic \in ImageMeanValues,
        il \in InternalSumValues, el \in ExternalSumValues }

\* pages: missing, or a list of pages with their h1_count.
PagesValues ==
    { {},
      {<<[page_link |-> "/a", h1_count |-> 0]>>},
      {<<[page_link |-> "/a", h1_count |-> 1]>>},
      {<<[page_link |-> "/a", h1_count |-> 1], [page_link |-> "/b", h1_count |-> 2]>>} }

\* stats.common_keywords: missing, empty, or led by a keyword whose
\* relevance is missing, 0, 0.3 or 1.
KeywordsValues ==
    { {},
      {<<>>},
      {<<[name |-> "seo", value |-> 3]>>},
      {<<[name |-> "seo", value |-> 3, relevance |-> Num(0)]>>},
      {<<[name |-> "seo", value |-> 3, relevance |-> Fin(3, 10)]>>},
      {<<[name |-> "seo", value |-> 3, relevance |-> Num(1)]>>} }

ScoreReports ==
    { OptField("page_count", pc)
      @@ ("stats" :> (OptField("numeric", numeric) @@ OptList("common_keywords", kws)))
      @@ OptList("pages", pages) :
        pc \in PageCountValues, numeric \in NumericValues,
        pages \in PagesValues, kws \in KeywordsValues }

\* stats.pageMetrics[].keywordDensity: 0.5, 1, 1.5, 2, 2.5, 3.5, 4, and 0.
DensityValues ==
    {Num(0), Fin(1, 2), Num(1), Fin(3, 2), Num(2), Fin(5, 2), Fin(7, 2), Num(4)}

\* Reports with one page in keywords_by_page whose metric has the given
\* density, and a second page that has no metric.
DensityReports ==
    { [page_count |-> Num(2),
       stats |-> [numeric |-> [word_count |-> [mean |-> Num(450)]],
                  keywords_by_page |-> <<[page_link |-> "/a"], [page_link |-> "/b"]>>,
                  pageMetrics |-> <<[pageLink |-> "/a", keywordDensity |-> density]>>]] :
        density \in DensityValues }

MetricReports == ScoreReports \cup DensityReports

\* ------------------------------------------------------------------------
\* The API operations on their own: each is applied to every response.
\* ------------------------------------------------------------------------

\* Arguments the operations are called with.
ApiUrls == {"https://example.com", "https://example.com/a"}
ApiArgs == {<<>>, <<5>>, <<5, FALSE>>}

CallAnalyzeSite(u, args, resp) ==
    /\ apiOp' = "analyzeSite"
    /\ apiReq' = analyzeSiteRequest(u, args)
    /\ apiResp' = resp
    /\ apiOut' = analyzeSite(resp)
    /\ UNCHANGED <<viewVars, inflight, last, derived>>

CallGetSitemap(resp) ==
    /\ apiOp' = "getSitemap"
    /\ apiReq' = getSitemapRequest
    /\ apiResp' = resp
    /\ apiOut' = getSitemap(resp)
    /\ UNCHANGED <<viewVars, inflight, last, derived>>

CallAnalyzeSpecificUrl(u, resp) ==
    /\ apiOp' = "analyzeSpecificUrl"
    /\ apiReq' = analyzeSpecificUrlRequest(u)
    /\ apiResp' = resp
    /\ apiOut' = analyzeSpecificUrl(resp)
    /\ UNCHANGED <<viewVars, inflight, last, derived>>

ApiNext ==
    \/ \E u \in ApiUrls, args \in ApiArgs, resp \in Responses : CallAnalyzeSite(u, args, resp)
    \/ \E resp \in Responses : CallGetSitemap(resp)
    \/ \E u \in ApiUrls, resp \in Responses : CallAnalyzeSpecificUrl(u, resp)

ApiSpec == Init /\ [][ApiNext]_vars

\* ------------------------------------------------------------------------
\* The derived metrics on their own: a report is stored, and opening a tab
\* renders that tab's scores from it.
\* ------------------------------------------------------------------------

MetricsInit ==
    /\ url = "https://example.com"
    /\ isAnalyzing = FALSE
    /\ error = ""
    /\ data \in MetricReports
    /\ activeTab = "dashboard"
    /\ selectedPage = NoPage
    /\ showPageContent = FALSE
    /\ viewContentType = "structured"
    /\ inflight = <<>>
    /\ last = [op |-> "settle"]
    /\ apiOp = "none"
    /\ apiReq = [method |-> "none"]
    /\ apiResp = [type |-> "none"]
    /\ apiOut = [threw |-> FALSE, value |-> NoData]
    /\ derived = [tab |-> "none"]

OpenTab(t) ==
    /\ data # NoData
    /\ activeTab' = t
    /\ last' = [op |-> "setActiveTab"]
    /\ UNCHANGED <<url, isAnalyzing, error, data, selectedPage,
                   showPageContent, viewContentType, inflight>>
    /\ UNCHANGED apiVars

RenderDashboard ==
    /\ OpenTab("dashboard")
    /\ derived' = [tab |-> "dashboard", report |-> data,
                   overview |-> getOverviewStats(data),
                   links |-> LinksScore(data),
                   keywords |-> RadarKeywordsScore(data)]

RenderContent ==
    /\ OpenTab("content")
    /\ derived' = [tab |-> "content", report |-> data,
                   overall |-> ContentOverallScore(data),
                   text |-> ContentOverallText(data)]

\* The links tab reads data.stats.numeric.internal_links: a TypeError when
\* numeric is missing.
RenderLinks ==
    /\ OpenTab("links")
    /\ derived' = IF Has(data.stats, "numeric")
                  THEN [tab |-> "links", report |-> data, threw |-> FALSE,
                        internal |-> InternalLinkScore(data),
                        internalText |-> InternalLinkText(data),
                        external |-> ExternalLinkScore(data),
                        externalText |-> ExternalLinkText(data)]
                  ELSE [tab |-> "links", report |-> data, threw |-> TRUE]

RenderKeywords ==
    /\ OpenTab("keywords")
    /\ derived' = [tab |-> "keywords", report |-> data,
                   grid |-> [i \in 1..Len(GridPages(data)) |->
                       LET density == PageDensity(data, GridPages(data)[i].page_link)
                       IN [page_link |-> GridPages(data)[i].page_link,
                           density |-> density,
                           color |-> DensityGridColor(density),
                           text |-> DensityGridText(density),
                           tableColor |-> DensityTableColor(density)]]]

RenderRecommendations ==
    /\ OpenTab("recommendations")
    /\ derived' = [tab |-> "recommendations", report |-> data,
                   sum |-> SeoOverallSum(data),
                   overall |-> SeoOverallScore(data),
                   cards |-> SeoCardScores(data),
                   cardTexts |-> [content |-> SeoCardText(SeoCardScores(data).content),
                                  keywords |-> SeoCardText(SeoCardScores(data).keywords),
                                  links |-> SeoCardText(SeoCardScores(data).links)]]

MetricsNext ==
    \/ RenderDashboard
    \/ RenderContent
    \/ RenderLinks
    \/ RenderKeywords
    \/ RenderRecommendations

MetricsSpec == MetricsInit /\ [][MetricsNext]_vars

\* ------------------------------------------------------------------------
\* The derived metrics inside the view: reports are replaced through the
\* sitemap list while tabs are opened and rendered.
\* ------------------------------------------------------------------------

RenderReportA ==
    [page_count |-> Num(1),
     stats |-> [numeric |-> [word_count |-> [mean |-> Num(450)],
                             image_count |-> [mean |-> Num(1)],
                             internal_links |-> [sum |-> Num(3)],
                             external_links |-> [sum |-> Num(2)]],
                common_keywords |-> <<[name |-> "seo", value |-> 3, relevance |-> Fin(3, 10)]>>,
                keywords_by_page |-> <<[page_link |-> "/a"]>>,
                pageMetrics |-> <<[pageLink |-> "/a", keywordDensity |-> Fin(5, 2)]>>],
     pages |-> <<[page_link |-> "/a", h1_count |-> 1]>>,
     sitemap_urls |-> <<"https://example.com/b">>]

RenderReportB ==
    [page_count |-> Num(1),
     stats |-> [numeric |-> [word_count |-> [mean |-> Num(1600)],
                             internal_links |-> [sum |-> Num(5)]],
                keywords_by_page |-> <<[page_link |-> "/b"]>>],
     pages |-> <<[page_link |-> "/b", h1_count |-> 0]>>,
     sitemap_urls |-> <<"https://example.com/a">>]

RenderReports == {RenderReportA, RenderReportB}

RenderResponses ==
    {[type |-> "reject"]}
    \cup {[type |-> "response", status |-> 200, body |-> JsonBody(r)] : r \in RenderReports}

RenderInit ==
    /\ url = "https://example.com"
    /\ isAnalyzing = FALSE
    /\ error = ""
    /\ data \in RenderReports
    /\ activeTab = "dashboard"
    /\ selectedPage = NoPage
    /\ showPageContent = FALSE
    /\ viewContentType = "structured"
    /\ inflight = <<>>
    /\ last = [op |-> "settle"]
    /\ apiOp = "none"
    /\ apiReq = [method |-> "none"]
    /\ apiResp = [type |-> "none"]
    /\ apiOut = [threw |-> FALSE, value |-> NoData]
    /\ derived = [tab |-> "none"]

RenderNext ==
    \/ RenderDashboard
    \/ RenderContent
    \/ RenderLinks
    \/ RenderKeywords
    \/ RenderRecommendations
    \/ SetActiveTab("sitemap")
    \/ \E u \in SitemapEntries : AnalyzeSitemapUrl(u)
    \/ \E i \in 1..Len(inflight), resp \in RenderResponses : AnalyzeSitemapUrlSettle(i, resp)

RenderSpec == RenderInit /\ [][RenderNext]_vars

\* ------------------------------------------------------------------------
\* The catch and finally blocks on their own: they are written for any
\* thrown value (err: unknown), so each is applied to Errors with and
\* without a message and to thrown values that are not Errors.
\* ------------------------------------------------------------------------

ThrownValues ==
    {[isError |-> TRUE, name |-> "Error", message |-> m] :
        m \in {"", "Failed to analyze website", "Failed to analyze URL", "Site unreachable"}}
    \cup {[isError |-> FALSE, value |-> v] : v \in {"", "timeout"}}

\* startAnalysis: catch (err) { ... } finally { setIsAnalyzing(false) }
StartAnalysisCatch(i, thrown) ==
    /\ i \in 1..Len(inflight)
    /\ inflight[i].caller = "startAnalysis"
    /\ error' = CatchMessage(thrown, "An error occurred during analysis")
    /\ isAnalyzing' = FALSE
    /\ inflight' = RemoveAt(inflight, i)
    /\ last' = [op |-> "settle", pending |-> inflight[i], resp |-> [type |-> "thrown"],
                out |-> [threw |-> TRUE, err |-> thrown],
                overtook |-> (1 < Len(inflight) /\ i = Len(inflight))]
    /\ UNCHANGED <<url, data, activeTab, selectedPage, showPageContent, viewContentType>>
    /\ UNCHANGED <<apiVars, derived>>

\* analyzeSitemapUrl: catch (err) { ... } finally { setIsAnalyzing(false) }
AnalyzeSitemapUrlCatch(i, thrown) ==
    /\ i \in 1..Len(inflight)
    /\ inflight[i].caller = "analyzeSitemapUrl"
    /\ error' = CatchMessage(thrown, "An error occurred analyzing the URL")
    /\ isAnalyzing' = FALSE
    /\ inflight' = RemoveAt(inflight, i)
    /\ last' = [op |-> "settle", pending |-> inflight[i], resp |-> [type |-> "thrown"],
                out |-> [threw |-> TRUE, err |-> thrown],
                overtook |-> (1 < Len(inflight) /\ i = Len(inflight))]
    /\ UNCHANGED <<url, data, activeTab, selectedPage, showPageContent, viewContentType>>
    /\ UNCHANGED <<apiVars, derived>>

CatchInit ==
    /\ url = ""
    /\ isAnalyzing = FALSE
    /\ error = ""
    /\ data \in {NoData, ReportA}
    /\ activeTab = "dashboard"
    /\ selectedPage = NoPage
    /\ showPageContent = FALSE
    /\ viewContentType = "structured"
    /\ inflight = <<>>
    /\ last = [op |-> "init"]
    /\ apiOp = "none"
    /\ apiReq = [method |-> "none"]
    /\ apiResp = [type |-> "none"]
    /\ apiOut = [threw |-> FALSE, value |-> NoData]
    /\ derived = [tab |-> "none"]

CatchNext ==
    \/ \E u \in Urls : SetUrl(u)
    \/ StartAnalysis
    \/ \E t \in Tabs : SetActiveTab(t)
    \/ \E u \in SitemapEntries : AnalyzeSitemapUrl(u)
    \/ \E i \in 1..Len(inflight), thrown \in ThrownValues : StartAnalysisCatch(i, thrown)
    \/ \E i \in 1..Len(inflight), thrown \in ThrownValues : AnalyzeSitemapUrlCatch(i, thrown)

CatchSpec == CatchInit /\ [][CatchNext]_vars

\* ------------------------------------------------------------------------
\* Properties
\* ------------------------------------------------------------------------

\* A step that settles a request, and what it settled.
Settled == last.op = "settle"
SettledFailed == Settled /\ last.out.threw
SettledOk == Settled /\ ~last.out.threw
SettledBy(caller) == Settled /\ last.pending.caller = caller
PendingBy(caller) == \E i \in 1..Len(inflight) : inflight[i].caller = caller

\* The operation a handler calls, and each operation's fallback message as
\* the interface table states it.
Fallback(op) ==
    CASE op = "analyzeSite" -> "Failed to analyze website"
      [] op = "getSitemap" -> "Failed to get sitemap"
      [] op = "analyzeSpecificUrl" -> "Failed to analyze URL"

Apply(op, resp) ==
    CASE op = "analyzeSite" -> analyzeSite(resp)
      [] op = "getSitemap" -> getSitemap(resp)
      [] op = "analyzeSpecificUrl" -> analyzeSpecificUrl(resp)

NonOk(resp) == resp.type = "response" /\ ~(resp.status \in 200..299)
HasError(body) == body.type = "json" /\ "error" \in DOMAIN body.value /\ body.value.error # ""

\* C1: at most one analysis request is outstanding in every reachable state
\* of the view.
C1_AtMostOneInFlight ==
    Len(inflight) <= 1

\* C2: a URL submitted from Idle puts the view in Analyzing; the view stays
\* in Analyzing until that request settles; on success it is then Loaded with
\* exactly the returned report, on failure Idle with no report and an error
\* message.
C2_SubmitPath ==
    /\ last.op = "startAnalysis" => Analyzing
    /\ PendingBy("startAnalysis") => Analyzing
    /\ SettledBy("startAnalysis") /\ SettledOk =>
            data = last.out.value /\ ~isAnalyzing
    /\ SettledBy("startAnalysis") /\ SettledFailed =>
            Idle /\ error # ""

\* C3: when a URL submission is answered with a non-OK status and a JSON
\* body whose error field is a non-empty string, the operation fails with
\* exactly that string, the view's error is exactly that string, the view is
\* Idle and no report is stored.
C3_ServerErrorShown ==
    SettledBy("startAnalysis") /\ NonOk(last.resp) /\ HasError(last.resp.body) =>
        /\ last.out.threw
        /\ last.out.err.message = last.resp.body.value.error
        /\ error = last.resp.body.value.error
        /\ Idle

\* C4 as stated: after a failed request the stored report is the one that
\* was stored when the request was started (absent when started from Idle).
C4_ReportAsAtStart ==
    SettledFailed => data = last.pending.dataAtStart

\* C4 as amended: handling a failed response changes the error message and
\* the analyzing flag only; the stored report after the failure is the
\* report stored right before the failure was handled, and every other
\* field of the view is as it was.
C4_FailureKeepsReport ==
    [][ (last'.op = "settle" /\ last'.out.threw) =>
            /\ data' = data
            /\ error' # ""
            /\ UNCHANGED <<url, activeTab, selectedPage, showPageContent, viewContentType>>
      ]_vars

\* A request started from a Loaded view has failed and the report is kept.
C4_Witness ==
    /\ SettledFailed
    /\ last.pending.caller = "analyzeSitemapUrl"
    /\ last.pending.dataAtStart = ReportA
    /\ data = ReportA

\* C5: a non-OK response whose body is not JSON makes each operation fail
\* with its own fallback message.
C5_NonJsonFallback ==
    NonOk(apiResp) /\ apiResp.body.type = "text" =>
        /\ apiOut.threw
        /\ apiOut.err.message = Fallback(apiOp)

\* C6: for every non-2xx status, a JSON body without an error field, or with
\* an empty one, makes the operation fail with its fallback message, a body
\* with an error field makes it fail with that field's value, and the
\* outcome is the same for every other non-2xx status.
C6_UniformFailure ==
    NonOk(apiResp) /\ apiResp.body.type = "json" =>
        /\ apiOut.threw
        /\ apiOut.err.message =
              IF HasError(apiResp.body) THEN apiResp.body.value.error ELSE Fallback(apiOp)
        /\ \A s \in ErrStatuses : Apply(apiOp, [apiResp EXCEPT !.status = s]) = apiOut

\* getSitemap has answered a 404 whose JSON body has no error field.
C6_Witness ==
    /\ apiOp = "getSitemap"
    /\ apiResp = [type |-> "response", status |-> 404, body |-> JsonBody([detail |-> "Not Found"])]
    /\ apiOut.threw
    /\ apiOut.err.message = "Failed to get sitemap"

\* C7 as stated: after 'New Analysis' the view is Idle, whatever the
\* analyzing flag was.
C7_NewAnalysisToIdle ==
    last.op = "newAnalysis" => Idle

\* C7 as amended: from any Loaded state 'New Analysis' discards the report
\* and changes nothing else, whatever the tab, the selected page, the error
\* message and the analyzing flag are; the view is Idle afterwards exactly
\* when the analyzing flag was false, and shows Analyzing when it was true.
C7_NewAnalysisDiscards ==
    [][ last'.op = "newAnalysis" =>
            /\ data # NoData
            /\ data' = NoData
            /\ (Idle' <=> ~isAnalyzing)
            /\ (Analyzing' <=> isAnalyzing)
            /\ UNCHANGED <<url, isAnalyzing, error, activeTab, selectedPage,
                           showPageContent, viewContentType, inflight>>
      ]_vars

\* 'New Analysis' was clicked on the sitemap tab while a request was
\* outstanding.
C7_Witness ==
    /\ last.op = "newAnalysis"
    /\ data = NoData
    /\ isAnalyzing
    /\ activeTab = "sitemap"

\* C8: right after any failed request the non-empty error message is
\* rendered.
C8_FailureShown ==
    SettledFailed => error # "" /\ ErrorShown

\* C9: the stored report is absent or the complete body of one successful
\* response, and right after a successful response it is that response's
\* body, with no field of the report stored before.
C9_ReplacedNotMerged ==
    /\ data \in Reports \cup {NoData}
    /\ SettledOk =>
          /\ data = last.out.value
          /\ data = last.resp.body.value
          /\ DOMAIN data = DOMAIN last.resp.body.value

\* A report without sitemap_urls has replaced one that had them.
C9_Witness ==
    /\ SettledOk
    /\ last.pending.dataAtStart = ReportA
    /\ data = ReportB
    /\ "sitemap_urls" \notin DOMAIN data

\* C10: if every issued fetch eventually settles, every state with the
\* analyzing flag set is followed by a state with the flag cleared.
C10_AnalyzingEnds ==
    isAnalyzing ~> ~isAnalyzing

\* A request has failed and the analyzing flag is cleared.
C10_Witness ==
    /\ SettledFailed
    /\ ~isAnalyzing
    /\ inflight = <<>>

\* A step on which a handler got past its guard and went on to its request.
TriggerAccepted ==
    \/ last'.op = "startAnalysis"
    \/ last'.op = "analyzeSitemapUrl" /\ last'.issued

\* C11: every accepted trigger issues exactly one request and no other step
\* issues one: a settlement, failed or not, takes its request out of flight
\* and puts none in, so the requests sent so far are as many as the triggers
\* accepted so far.
C11_SingleShot ==
    [][ /\ TriggerAccepted =>
              /\ Len(inflight') = Len(inflight) + 1
              /\ SubSeq(inflight', 1, Len(inflight)) = inflight
        /\ last'.op = "settle" =>
              /\ Len(inflight') = Len(inflight) - 1
              /\ \A j \in 1..Len(inflight') : \E k \in 1..Len(inflight) : inflight'[j] = inflight[k]
        /\ ~TriggerAccepted /\ last'.op # "settle" => inflight' = inflight
      ]_vars

\* A URL submission has failed and nothing is in flight after it.
C11_Witness ==
    /\ SettledFailed
    /\ last.pending.caller = "startAnalysis"
    /\ error # ""
    /\ inflight = <<>>

\* C12: a URL submission sends POST /api/analyze with the entered URL,
\* max_pages 20, single_page true and remove_duplicates true; a sitemap
\* entry sends POST /api/analyze-url with that entry and remove_duplicates
\* true; and analyzeSite without its optional arguments sends max_pages 20
\* and single_page true.
C12_RequestBodies ==
    [][ /\ last'.op = "startAnalysis" =>
              inflight'[Len(inflight')].request =
                  [method |-> "POST", path |-> "/api/analyze",
                   body |-> [url |-> url, max_pages |-> 20, single_page |-> TRUE,
                             remove_duplicates |-> TRUE]]
        /\ last'.op = "analyzeSitemapUrl" /\ last'.issued =>
              \E u \in SitemapEntries \ {""} :
                  inflight'[Len(inflight')].request =
                      [method |-> "POST", path |-> "/api/analyze-url",
                       body |-> [url |-> u, remove_duplicates |-> TRUE]]
        /\ \A i \in 1..Len(inflight') : inflight'[i].request.body.remove_duplicates = TRUE
        /\ \A u \in ApiUrls :
              analyzeSiteRequest(u, <<>>).body =
                  [url |-> u, max_pages |-> 20, single_page |-> TRUE, remove_duplicates |-> TRUE]
      ]_vars

\* A URL submission and a sitemap entry analysis are both in flight.
C12_Witness ==
    /\ PendingBy("startAnalysis")
    /\ PendingBy("analyzeSitemapUrl")

\* ------------------------------------------------------------------------
\* The derived metrics (MetricsSpec)
\* ------------------------------------------------------------------------

JsGe(a, b) == JsGt(a, b) \/ JsEq(a, b)
InRange(x) == x.k = "fin" /\ JsGe(x, Num(0)) /\ JsGe(Num(100), x)
OrZero(x) == IF x = Absent THEN Num(0) ELSE x
NumericOfReport(d) == Get(Get(d, "stats"), "numeric")
Zeros ==
    [total_pages |-> Num(0), avg_word_count |-> Num(0),
     avg_image_count |-> Num(0), total_links |-> Num(0)]

\* The overview as the specification words it, for any report.
StatedOverview(d) ==
    [total_pages |-> OrZero(Get(d, "page_count")),
     avg_word_count |-> OrZero(Get(Get(NumericOfReport(d), "word_count"), "mean")),
     avg_image_count |-> OrZero(Get(Get(NumericOfReport(d), "image_count"), "mean")),
     total_links |-> JsAdd(OrZero(Get(Get(NumericOfReport(d), "internal_links"), "sum")),
                           OrZero(Get(Get(NumericOfReport(d), "external_links"), "sum")))]

EmptyNumericReport(d) ==
    /\ Get(d, "page_count") = Num(0)
    /\ NumericOfReport(d) # Absent
    /\ DOMAIN NumericOfReport(d) = {}

OnePageReport(d) ==
    /\ Get(d, "page_count") = Num(1)
    /\ Get(Get(NumericOfReport(d), "word_count"), "mean") = Num(450)
    /\ Get(Get(NumericOfReport(d), "image_count"), "mean") = Num(1)
    /\ Get(Get(NumericOfReport(d), "internal_links"), "sum") = Num(3)
    /\ Get(Get(NumericOfReport(d), "external_links"), "sum") = Num(2)

\* C13 as stated: for every report the overview is page_count, the two means
\* and the sum of the two link sums, each 0 if absent.
C13_OverviewForEveryReport ==
    derived.tab = "dashboard" => derived.overview = StatedOverview(data)

\* C13, amended: for a report that has stats.numeric the overview is
\* page_count, word_count.mean, image_count.mean and internal_links.sum +
\* external_links.sum, each 0 if absent, and all four are >= 0; for a report
\* without stats.numeric all four are 0, total_pages included. The report
\* {page_count: 0, numeric: {}} gives four zeros and the one-page report of
\* the end-to-end scenario gives 1, 450, 1 and 5.
C13_OverviewStats ==
    derived.tab = "dashboard" =>
        /\ NumericOfReport(data) # Absent => derived.overview = StatedOverview(data)
        /\ NumericOfReport(data) = Absent => derived.overview = Zeros
        /\ \A f \in DOMAIN derived.overview :
              derived.overview[f].k = "fin" /\ JsGe(derived.overview[f], Num(0))
        /\ EmptyNumericReport(data) => derived.overview = Zeros
        /\ OnePageReport(data) =>
              derived.overview = [total_pages |-> Num(1), avg_word_count |-> Num(450),
                                  avg_image_count |-> Num(1), total_links |-> Num(5)]

C13_Witness ==
    /\ derived.tab = "dashboard"
    /\ OnePageReport(data)
    /\ derived.overview.total_links = Num(5)

\* C14: with total_pages = 0 the link score of the radar, the 'Link
\* Structure' card and the overall SEO score are finite numbers in [0,100].
C14_ZeroPagesGuarded ==
    /\ derived.tab = "dashboard" /\ IsZero(derived.overview.total_pages) =>
          InRange(derived.links)
    /\ derived.tab = "recommendations" /\ IsZero(getOverviewStats(data).total_pages) =>
          InRange(derived.cards.links) /\ InRange(derived.overall)

\* The content quality score as the specification words it: three sub-scores
\* capped at 100, weighted 0.4, 0.3 and 0.3, the sum clamped.
StatedContentQuality(d) ==
    MathMin(Num(100),
        JsAdd(JsAdd(JsMul(Fin(4, 10), MathMin(Num(100), JsMul(JsDiv(StatedOverview(d).avg_word_count, Num(800)), Num(100)))),
                    JsMul(Fin(3, 10), MathMin(Num(100), JsMul(H1PerPage(d), Num(100))))),
              JsMul(Fin(3, 10), MathMin(Num(100), JsMul(JsDiv(StatedOverview(d).avg_image_count, Num(4)), Num(100))))))

\* C15: the content quality score is 0.4 * min(100, words/800*100) +
\* 0.3 * min(100, h1 per page * 100) + 0.3 * min(100, images/4*100), clamped;
\* a mean of 1600 words with no H1 and no images scores 40.
C15_CappedComponents ==
    derived.tab = "content" =>
        /\ derived.overall = StatedContentQuality(data)
        /\ ( /\ StatedOverview(data).avg_word_count = Num(1600)
             /\ IsZero(H1PerPage(data))
             /\ IsZero(StatedOverview(data).avg_image_count) ) => derived.overall = Num(40)

\* C16: the content quality score and the overall SEO score are numbers in
\* [0,100] for every report.
C16_ScoresClamped ==
    /\ derived.tab = "content" => InRange(derived.overall)
    /\ derived.tab = "recommendations" => InRange(derived.overall)

\* The keyword score as the specification words it: the first keyword's
\* relevance times 100, capped, and 50 when there is no keyword (or the
\* keyword carries no relevance).
StatedKeywordScore(d) ==
    IF TopRelevance(d) = Absent THEN Num(50)
    ELSE MathMin(Num(100), JsMul(TopRelevance(d), Num(100)))

\* C17: the overall SEO score is 0.4 * content + 0.3 * keyword + 0.3 * link,
\* the keyword score being min(100, relevance * 100) for every relevance in
\* [0,1] of the first keyword and 50 without keywords.
C17_SeoFormula ==
    /\ derived.tab = "recommendations" =>
          derived.sum = JsAdd(JsAdd(JsMul(SeoContentScore(data), Fin(4, 10)),
                                    JsMul(StatedKeywordScore(data), Fin(3, 10))),
                              JsMul(LinksScore(data), Fin(3, 10)))
    /\ derived.tab = "dashboard" => derived.keywords = StatedKeywordScore(data)

\* The report with one input raised.
SetNumeric(d, field, inner, v) ==
    [d EXCEPT !.stats = [@ EXCEPT !.numeric = (field :> (inner :> v)) @@ @]]

LargerValues(values, current) ==
    {v \in values \ {Absent} : JsGe(v, OrZero(current))}

\* C18: raising the word mean, the image mean or the link total of a report,
\* everything else equal, never lowers the content quality score or the
\* overall SEO score.
C18_Monotone ==
    /\ derived.tab = "content" /\ NumericOfReport(data) # Absent =>
          /\ \A v \in LargerValues(WordMeanValues, Get(Get(NumericOfReport(data), "word_count"), "mean")) :
                JsGe(ContentOverallScore(SetNumeric(data, "word_count", "mean", v)), derived.overall)
          /\ \A v \in LargerValues(ImageMeanValues, Get(Get(NumericOfReport(data), "image_count"), "mean")) :
                JsGe(ContentOverallScore(SetNumeric(data, "image_count", "mean", v)), derived.overall)
    /\ derived.tab = "recommendations" /\ NumericOfReport(data) # Absent =>
          /\ \A v \in LargerValues(WordMeanValues, Get(Get(NumericOfReport(data), "word_count"), "mean")) :
                JsGe(SeoOverallScore(SetNumeric(data, "word_count", "mean", v)), derived.overall)
          /\ \A v \in LargerValues(InternalSumValues, Get(Get(NumericOfReport(data), "internal_links"), "sum")) :
                JsGe(SeoOverallScore(SetNumeric(data, "internal_links", "sum", v)), derived.overall)

\* The tier a text stands for.
TierOfText(text) ==
    IF text \in {"Content needs significant improvement. Focus on all aspects of content quality.",
                 "Poor internal linking. Add more links between your pages.",
                 "Few external links. Consider linking to authority sites.",
                 "Needs significant improvement"}
    THEN "needs improvement"
    ELSE IF text \in {"Content quality is moderate. Some areas need improvement.",
                      "Moderate internal linking structure.",
                      "Moderate use of external links.",
                      "Room for improvement"}
         THEN "moderate"
         ELSE "good"

Tier(score, low, high) ==
    IF JsLt(score, Num(low)) THEN "needs improvement"
    ELSE IF JsLt(score, Num(high)) THEN "moderate"
         ELSE "good"

\* C19 as stated: every tiered score is 'needs improvement' below 50,
\* 'moderate' from 50 and below 70, 'good' from 70.
C19_UniformTiers ==
    /\ derived.tab = "content" => TierOfText(derived.text) = Tier(derived.overall, 50, 70)
    /\ derived.tab = "links" /\ ~derived.threw =>
          /\ TierOfText(derived.internalText) = Tier(derived.internal, 50, 70)
          /\ TierOfText(derived.externalText) = Tier(derived.external, 50, 70)
    /\ derived.tab = "recommendations" =>
          \A c \in DOMAIN derived.cards :
              TierOfText(derived.cardTexts[c]) = Tier(derived.cards[c], 50, 70)

\* C19, amended: the overall content quality score is tiered at 50 and 70,
\* the internal and external link scores at 30 and 60, the three SEO score
\* cards at 40 and 70; in each, a score below the first boundary is 'needs
\* improvement', one below the second is 'moderate', anything else 'good'.
C19_TiersPerScore ==
    /\ derived.tab = "content" => TierOfText(derived.text) = Tier(derived.overall, 50, 70)
    /\ derived.tab = "links" /\ ~derived.threw =>
          /\ TierOfText(derived.internalText) = Tier(derived.internal, 30, 60)
          /\ TierOfText(derived.externalText) = Tier(derived.external, 30, 60)
    /\ derived.tab = "recommendations" =>
          \A c \in DOMAIN derived.cards :
              TierOfText(derived.cardTexts[c]) = Tier(derived.cards[c], 40, 70)

C19_Witness ==
    /\ derived.tab = "recommendations"
    /\ derived.cards.links = Num(40)
    /\ derived.cardTexts.links = "Room for improvement"

\* The band a keyword density text or bar colour stands for.
BandOfText(text) ==
    IF text = "Too low. Increase keyword usage." THEN "too low"
    ELSE IF text = "Below optimal. Consider increasing slightly." THEN "below optimal"
         ELSE IF text = "Optimal keyword density." THEN "optimal"
              ELSE "stuffing risk"

StatedBand(density) ==
    IF JsLt(density, Num(1)) THEN "too low"
    ELSE IF JsLt(density, Num(2)) THEN "below optimal"
         ELSE IF JsGe(Fin(7, 2), density) THEN "optimal"
              ELSE "stuffing risk"

BarColors(band) ==
    IF band = "too low" THEN {"bg-red-500"}
    ELSE IF band = "optimal" THEN {"bg-emerald-500"}
         ELSE {"bg-yellow-500", "bg-amber-500"}

FirstDensity(d) == d.stats.pageMetrics[1].keywordDensity

\* C20: a keyword density below 1 is 'too low', from 1 and below 2 'below
\* optimal', from 2 up to 3.5 'optimal', above 3.5 'stuffing risk', in the
\* text of the density grid and in the bar colours; 0.5, 1.5, 2.5 and 4 fall
\* in the four bands in that order, 1 is 'below optimal', 3.5 is 'optimal'.
C20_DensityBands ==
    derived.tab = "keywords" =>
        /\ \A i \in DOMAIN derived.grid :
              /\ BandOfText(derived.grid[i].text) = StatedBand(derived.grid[i].density)
              /\ derived.grid[i].color \in BarColors(StatedBand(derived.grid[i].density))
              /\ derived.grid[i].tableColor \in BarColors(StatedBand(derived.grid[i].density))
        /\ Has(data.stats, "pageMetrics") =>
              /\ derived.grid[1].density = FirstDensity(data)
              /\ FirstDensity(data) = Fin(1, 2) => BandOfText(derived.grid[1].text) = "too low"
              /\ FirstDensity(data) = Fin(3, 2) => BandOfText(derived.grid[1].text) = "below optimal"
              /\ FirstDensity(data) = Fin(5, 2) => BandOfText(derived.grid[1].text) = "optimal"
              /\ FirstDensity(data) = Num(4) => BandOfText(derived.grid[1].text) = "stuffing risk"
              /\ FirstDensity(data) = Num(1) => BandOfText(derived.grid[1].text) = "below optimal"
              /\ FirstDensity(data) = Fin(7, 2) => BandOfText(derived.grid[1].text) = "optimal"

C20_Witness ==
    /\ derived.tab = "keywords"
    /\ Has(data.stats, "pageMetrics")
    /\ FirstDensity(data) = Fin(7, 2)
    /\ derived.grid[1].text = "Optimal keyword density."

C22_AnalyzingWhileOutstanding ==
    inflight # <<>> => isAnalyzing

\* C23: when several requests were started and all have settled successfully,
\* the stored report is the response to the request that was started last.
\* Taken at the step that settles the last outstanding request right after
\* the most recently started one has settled before it.
C23_LastStartedWins ==
    [][ ( /\ SettledOk
          /\ last.overtook
          /\ Len(inflight) = 1
          /\ last'.op = "settle"
          /\ ~last'.out.threw ) => data' = last.out.value ]_vars

\* C24: a response to a request that was started before 'New Analysis' never
\* stores a report again. A request that was started with a report stored
\* and settles with none stored was started before the reset.
C24_NoStaleRepopulation ==
    [][ ( /\ last'.op = "settle"
          /\ data = NoData
          /\ last'.pending.dataAtStart # NoData ) => data' = NoData ]_vars

\* C25: whenever the page-content panel is displayed, the selected page is
\* one of the pages of the stored report.
C25_PanelPageOfReport ==
    PanelShown => selectedPage \in PagesOf(data)

\* C26: while exactly one request is in flight the error message is empty,
\* and it is still empty after that request has succeeded.
C26_ErrorClearedWhileInFlight ==
    [][ /\ Len(inflight') = 1 => error' = ""
        /\ ( /\ last'.op = "settle"
             /\ ~last'.out.threw
             /\ Len(inflight) = 1 ) => error' = "" ]_vars

\* The default text of each handler, as the claim words it.
DefaultText(caller) ==
    IF caller = "startAnalysis" THEN "An error occurred during analysis"
    ELSE "An error occurred analyzing the URL"

\* C27: after a failed request the error message is not empty: it is the
\* thrown Error's message when that is not empty, and the handler's default
\* text when the message is empty or the thrown value is not an Error.
C27_FailureMessage ==
    [][ last'.op = "settle" /\ last'.out.threw =>
            /\ error' # ""
            /\ error' = IF last'.out.err.isError /\ last'.out.err.message # ""
                        THEN last'.out.err.message
                        ELSE DefaultText(last'.pending.caller) ]_vars

C27_Witness ==
    /\ SettledFailed
    /\ last.out.err.isError
    /\ last.out.err.message = ""
    /\ last.pending.caller = "analyzeSitemapUrl"
    /\ error = "An error occurred analyzing the URL"

\* C28: a trigger with an empty URL issues no request and leaves the error
\* message, the stored report and the analyzing flag as they are; a URL
\* submission is never started with an empty URL.
C28_EmptyUrlNoEffect ==
    [][ /\ last'.op = "analyzeSitemapUrl" /\ last'.entry = "" =>
              /\ inflight' = inflight
              /\ error' = error
              /\ data' = data
              /\ isAnalyzing' = isAnalyzing
        /\ last'.op = "startAnalysis" =>
              /\ url # ""
              /\ inflight'[Len(inflight')].request.body.url # "" ]_vars

C28_Witness ==
    /\ last.op = "analyzeSitemapUrl"
    /\ last.entry = ""
    /\ error # ""
    /\ ~isAnalyzing
    /\ inflight = <<>>

NavigationOps == {"setActiveTab", "viewContent", "closePageContent", "setViewContentType", "setUrl"}

\* C29: switching tabs, 'View Content', closing the panel, switching
\* between structured and HTML view and editing the URL field leave the
\* stored report, the error message, the analyzing flag and the outstanding
\* requests as they are; 'View Content' selects the page, shows the panel,
\* sets the view type to 'structured' and leaves the active tab alone.
C29_NavigationFrame ==
    [][ /\ last'.op \in NavigationOps =>
              /\ data' = data
              /\ error' = error
              /\ isAnalyzing' = isAnalyzing
              /\ inflight' = inflight
        /\ last'.op = "viewContent" =>
              /\ selectedPage' \in PagesOf(data)
              /\ showPageContent'
              /\ viewContentType' = "structured"
              /\ activeTab' = activeTab ]_vars

C29_Witness ==
    /\ last.op = "viewContent"
    /\ showPageContent
    /\ selectedPage \in PagesOf(data)
    /\ viewContentType = "structured"
    /\ isAnalyzing
    /\ inflight # <<>>

\* The band a bar colour stands for in either view.
BandOfColor(color) ==
    IF color = "bg-red-500" THEN "too low"
    ELSE IF color = "bg-emerald-500" THEN "optimal"
         ELSE "off optimal"

\* C30: the keyword density grid and the keywords-by-page table put every
\* page in the same band: both bars red, both yellow/amber or both emerald,
\* at the boundaries 1, 2 and 3.5 and for a page without a metric as well.
C30_SameBandInBothViews ==
    derived.tab = "keywords" =>
        \A i \in DOMAIN derived.grid :
            /\ BandOfColor(derived.grid[i].color) = BandOfColor(derived.grid[i].tableColor)
            /\ BandOfColor(derived.grid[i].tableColor) = "optimal"
                  <=> derived.grid[i].text = "Optimal keyword density."
            /\ BandOfColor(derived.grid[i].tableColor) = "too low"
                  <=> derived.grid[i].text = "Too low. Increase keyword usage."

C30_Witness ==
    /\ derived.tab = "keywords"
    /\ Len(derived.grid) = 2
    /\ derived.grid[1].density = Num(2)
    /\ derived.grid[1].color = "bg-emerald-500"
    /\ derived.grid[1].tableColor = "bg-emerald-500"
    /\ derived.grid[2].density = Num(0)
    /\ derived.grid[2].tableColor = "bg-red-500"

====
